---- MODULE Spec2Model ----
(***************************************************************************)
(* A model of the three JWT scanning scripts of the repository:            *)
(*   src/JWTScan/none_algorithms.js       ("none" algorithm probe)         *)
(*   src/JWTScan/property_modification.js (payload claim tampering)        *)
(*   src/unnamed/part_000                 (SSRF header probe)              *)
(* Texts are sequences of one-character strings.  Base64, UTF-8 and JSON   *)
(* are computed character by character, as the JavaScript runtime does.    *)
(***************************************************************************)
EXTENDS Integers, Sequences, FiniteSets, TLC

(***************************************************************************)
(* Characters                                                              *)
(***************************************************************************)

\* Code point 96, the grave accent, which the texts here never hold.
Grave == "GRAVE"

\* The printable ASCII characters, code points 32 to 126, in order.
Ascii ==
  << " ", "!", "\"", "#", "$", "%", "&", "'", "(", ")", "*", "+", ",", "-",
     ".", "/", "0", "1", "2", "3", "4", "5", "6", "7", "8", "9", ":", ";",
     "<", "=", ">", "?", "@", "A", "B", "C", "D", "E", "F", "G", "H", "I",
     "J", "K", "L", "M", "N", "O", "P", "Q", "R", "S", "T", "U", "V", "W",
     "X", "Y", "Z", "[", "\\", "]", "^", "_", Grave, "a", "b", "c", "d", "e",
     "f", "g", "h", "i", "j", "k", "l", "m", "n", "o", "p", "q", "r", "s",
     "t", "u", "v", "w", "x", "y", "z", "{", "|", "}", "~" >>

LF == "\n"
CR == "\r"

\* A byte that is not a printable ASCII character, LF or CR, once decoded.
NonAscii == "NONASCII"

AsciiChars == { Ascii[i] : i \in 1..Len(Ascii) }

\* Code point of a character.
OrdTable ==
  [ c \in AsciiChars \cup {LF, CR} |->
      IF c = LF THEN 10
      ELSE IF c = CR THEN 13
      ELSE 31 + (CHOOSE i \in 1..Len(Ascii) : Ascii[i] = c) ]

Ord(c) == OrdTable[c]

Chr(b) ==
  IF b >= 32 /\ b <= 126 THEN Ascii[b - 31]
  ELSE IF b = 10 THEN LF
  ELSE IF b = 13 THEN CR
  ELSE NonAscii

Digits == <<"0", "1", "2", "3", "4", "5", "6", "7", "8", "9">>
DigitChars == { Digits[i] : i \in 1..10 }
DigitValue(c) == Ord(c) - 48

IsUpper(c) == c \in AsciiChars /\ Ord(c) >= 65 /\ Ord(c) <= 90
IsLower(c) == c \in AsciiChars /\ Ord(c) >= 97 /\ Ord(c) <= 122
IsDigit(c) == c \in DigitChars

\* White space of String.prototype.trim, as far as the texts here hold it.
IsSpace(c) == c \in {" ", LF, CR}

(***************************************************************************)
(* String primitives                                                       *)
(***************************************************************************)

Drop(s, n) == SubSeq(s, n + 1, Len(s))
Take(s, n) == SubSeq(s, 1, n)

\* Whether pat occurs in s at position i (1-based).
OccursAt(s, pat, i) ==
  /\ i >= 1
  /\ i + Len(pat) - 1 <= Len(s)
  /\ \A k \in 1..Len(pat) : s[i + k - 1] = pat[k]

\* String.prototype.indexOf, 1-based; 0 when pat does not occur.
IndexOf(s, pat) ==
  LET hits == { i \in 1..(Len(s) - Len(pat) + 1) : OccursAt(s, pat, i) }
  IN  IF hits = {} THEN 0 ELSE CHOOSE i \in hits : \A j \in hits : i <= j

RECURSIVE SplitOn(_, _)
\* String.prototype.split with a one-character separator.
SplitOn(s, sep) ==
  LET i == IndexOf(s, <<sep>>)
  IN  IF i = 0 THEN <<s>>
      ELSE <<Take(s, i - 1)>> \o SplitOn(Drop(s, i), sep)

RECURSIVE JoinWith(_, _)
\* Array.prototype.join with a one-character separator.
JoinWith(parts, sep) ==
  IF Len(parts) = 0 THEN <<>>
  ELSE IF Len(parts) = 1 THEN parts[1]
  ELSE parts[1] \o <<sep>> \o JoinWith(Tail(parts), sep)

RECURSIVE TrimStart(_)
TrimStart(s) ==
  IF Len(s) > 0 /\ IsSpace(s[1]) THEN TrimStart(Tail(s)) ELSE s

RECURSIVE TrimEnd(_)
TrimEnd(s) ==
  IF Len(s) > 0 /\ IsSpace(s[Len(s)]) THEN TrimEnd(Take(s, Len(s) - 1)) ELSE s

\* String.prototype.trim.
Trim(s) == TrimEnd(TrimStart(s))

\* String.prototype.replaceAll(c, ""): every occurrence of c removed.
RemoveAll(s, c) == SelectSeq(s, LAMBDA x : x # c)

\* String.prototype.replace with a string pattern: the first occurrence only.
\* (No replacement text here holds "$", so no replacement pattern applies.)
ReplaceFirst(s, pat, rep) ==
  LET i == IndexOf(s, pat)
  IN  IF i = 0 THEN s
      ELSE Take(s, i - 1) \o rep \o Drop(s, i + Len(pat) - 1)

(***************************************************************************)
(* Buffer: UTF-8 and base64                                                *)
(***************************************************************************)

\* The standard base64 alphabet, which Buffer.prototype.toString('base64')
\* writes.
B64Alphabet ==
  << "A", "B", "C", "D", "E", "F", "G", "H", "I", "J", "K", "L", "M", "N",
     "O", "P", "Q", "R", "S", "T", "U", "V", "W", "X", "Y", "Z", "a", "b",
     "c", "d", "e", "f", "g", "h", "i", "j", "k", "l", "m", "n", "o", "p",
     "q", "r", "s", "t", "u", "v", "w", "x", "y", "z", "0", "1", "2", "3",
     "4", "5", "6", "7", "8", "9", "+", "/" >>

\* The value of a base64 character, -1 for any other character.  The decoder
\* of Buffer.from(text, 'base64') reads the URL-safe "-" and "_" as well.
B64Value(c) ==
  IF c = "-" THEN 62
  ELSE IF c = "_" THEN 63
  ELSE IF IsUpper(c) THEN Ord(c) - 65
  ELSE IF IsLower(c) THEN Ord(c) - 97 + 26
  ELSE IF IsDigit(c) THEN Ord(c) - 48 + 52
  ELSE IF c = "+" THEN 62
  ELSE IF c = "/" THEN 63
  ELSE -1

\* Buffer.from(text): the UTF-8 bytes of a text of ASCII characters.
Utf8Bytes(s) == [ i \in 1..Len(s) |-> Ord(s[i]) ]

\* Buffer.prototype.toString(): the text of the bytes.
Utf8Text(bytes) == [ i \in 1..Len(bytes) |-> Chr(bytes[i]) ]

RECURSIVE Base64Encode(_)
\* Buffer.prototype.toString('base64'): 3 bytes to 4 characters, "=" padded.
Base64Encode(b) ==
  IF Len(b) = 0 THEN <<>>
  ELSE IF Len(b) = 1 THEN
    << B64Alphabet[(b[1] \div 4) + 1],
       B64Alphabet[((b[1] % 4) * 16) + 1], "=", "=" >>
  ELSE IF Len(b) = 2 THEN
    << B64Alphabet[(b[1] \div 4) + 1],
       B64Alphabet[((b[1] % 4) * 16) + (b[2] \div 16) + 1],
       B64Alphabet[((b[2] % 16) * 4) + 1], "=" >>
  ELSE
    << B64Alphabet[(b[1] \div 4) + 1],
       B64Alphabet[((b[1] % 4) * 16) + (b[2] \div 16) + 1],
       B64Alphabet[((b[2] % 16) * 4) + (b[3] \div 64) + 1],
       B64Alphabet[(b[3] % 64) + 1] >> \o Base64Encode(Drop(b, 3))

\* The 6-bit values of a base64 text: the text up to its first "=", the
\* characters outside the alphabet skipped.
B64Sextets(s) ==
  LET eq   == IndexOf(s, <<"=">>)
      body == IF eq = 0 THEN s ELSE Take(s, eq - 1)
      vals == [ i \in 1..Len(body) |-> B64Value(body[i]) ]
  IN  SelectSeq(vals, LAMBDA v : v >= 0)

RECURSIVE SextetsToBytes(_)
\* 4 values to 3 bytes; a last group of 2 or 3 values gives 1 or 2 bytes and
\* a last single value gives none.
SextetsToBytes(v) ==
  IF Len(v) < 2 THEN <<>>
  ELSE IF Len(v) = 2 THEN << (v[1] * 4) + (v[2] \div 16) >>
  ELSE IF Len(v) = 3 THEN
    << (v[1] * 4) + (v[2] \div 16), ((v[2] % 16) * 16) + (v[3] \div 4) >>
  ELSE
    << (v[1] * 4) + (v[2] \div 16),
       ((v[2] % 16) * 16) + (v[3] \div 4),
       ((v[3] % 4) * 64) + v[4] >> \o SextetsToBytes(Drop(v, 4))

\* Buffer.from(text, 'base64'): lenient, padded or not; it never throws.
Base64Decode(s) == SextetsToBytes(B64Sextets(s))

(***************************************************************************)
(* JSON values and JavaScript objects                                      *)
(*                                                                         *)
(* A value is a record [t, n, s, o]: t its type, n its number (or 1/0 for  *)
(* a boolean), s its text, o the own properties of an object as a sequence *)
(* of [k, v] in the order the engine enumerates them.  The inputs hold     *)
(* integers, texts, null, booleans and objects; arrays, fractions and      *)
(* exponents are not among them.                                           *)
(***************************************************************************)

JNum(n)  == [t |-> "num",  n |-> n, s |-> <<>>, o |-> <<>>]
JStr(s)  == [t |-> "str",  n |-> 0, s |-> s,    o |-> <<>>]
JBool(b) == [t |-> "bool", n |-> IF b THEN 1 ELSE 0, s |-> <<>>, o |-> <<>>]
JNull    == [t |-> "null", n |-> 0, s |-> <<>>, o |-> <<>>]
JObj(o)  == [t |-> "obj",  n |-> 0, s |-> <<>>, o |-> o]

RECURSIVE DigitsValue(_)
\* The number a text of decimal digits writes.
DigitsValue(s) ==
  IF Len(s) = 0 THEN 0
  ELSE (DigitsValue(Take(s, Len(s) - 1)) * 10) + DigitValue(s[Len(s)])

RECURSIVE NatText(_)
NatText(n) ==
  IF n < 10 THEN <<Digits[n + 1]>>
  ELSE NatText(n \div 10) \o <<Digits[(n % 10) + 1]>>

\* Number.prototype.toString of an integer.
IntText(n) == IF n < 0 THEN <<"-">> \o NatText(-n) ELSE NatText(n)

\* Whether digit text a writes a smaller number than digit text b, neither
\* with a leading zero: the shorter one, or the first differing digit.
DigitsLess(a, b) ==
  \/ Len(a) < Len(b)
  \/ /\ Len(a) = Len(b)
     /\ \E i \in 1..Len(a) :
          /\ DigitValue(a[i]) < DigitValue(b[i])
          /\ \A j \in 1..(i - 1) : a[j] = b[j]

\* 2^32 - 1, the first number that is not an integer index.
IndexLimitText == <<"4", "2", "9", "4", "9", "6", "7", "2", "9", "5">>

\* Whether a property key is an integer index (a canonical numeric string
\* below 2^32 - 1): such keys are enumerated first, in ascending order.
IsIndexKey(k) ==
  /\ Len(k) >= 1
  /\ \A i \in 1..Len(k) : IsDigit(k[i])
  /\ (Len(k) > 1 => k[1] # "0")
  /\ DigitsLess(k, IndexLimitText)

HasKey(o, k) == \E i \in 1..Len(o) : o[i].k = k

\* The value of own property k.
GetProp(o, k) == o[CHOOSE i \in 1..Len(o) : o[i].k = k].v

\* Whether a new key k is enumerated before the existing entry e.
KeyBefore(k, e) ==
  IsIndexKey(k) /\ (~IsIndexKey(e.k) \/ DigitsLess(k, e.k))

\* SetProp as a map that keeps insertion order for every key, the integer
\* keys too.
SetPropInsertionOrder(o, k, v) ==
  IF HasKey(o, k)
  THEN [ i \in 1..Len(o) |-> IF o[i].k = k THEN [k |-> k, v |-> v] ELSE o[i] ]
  ELSE Append(o, [k |-> k, v |-> v])

\* [[Set]] / CreateDataProperty of key k on the property list o: an existing
\* key keeps its place and takes the value; a new integer index goes to its
\* numeric place before the other keys; any other new key goes last.
SetProp(o, k, v) ==
  IF HasKey(o, k)
  THEN [ i \in 1..Len(o) |-> IF o[i].k = k THEN [k |-> k, v |-> v] ELSE o[i] ]
  ELSE LET before == SelectSeq(o, LAMBDA e : ~KeyBefore(k, e))
           after  == SelectSeq(o, LAMBDA e : KeyBefore(k, e))
       IN  before \o <<[k |-> k, v |-> v]>> \o after

\* Object.keys / for...in over own properties: the keys in engine order.
Keys(o) == [ i \in 1..Len(o) |-> o[i].k ]

\* The own enumerable properties the spread { ...value } copies.
SpreadProps(val) ==
  IF val.t = "obj" THEN val.o
  ELSE IF val.t = "str"
       THEN [ i \in 1..Len(val.s) |->
                [k |-> IntText(i - 1), v |-> JStr(<<val.s[i]>>)] ]
       ELSE <<>>

\* value + 1 of JavaScript: addition for a number (null counts 0, true 1),
\* concatenation with "1" for a text or an object.
PlusOne(val) ==
  IF val.t \in {"num", "bool", "null"} THEN JNum(val.n + 1)
  ELSE IF val.t = "str" THEN JStr(val.s \o <<"1">>)
  ELSE JStr(<<"[", "o", "b", "j", "e", "c", "t", " ",
              "O", "b", "j", "e", "c", "t", "]", "1">>)

(***************************************************************************)
(* JSON.stringify                                                          *)
(***************************************************************************)

RECURSIVE QuoteChars(_)
QuoteChars(s) ==
  IF Len(s) = 0 THEN <<>>
  ELSE (IF s[1] = "\"" THEN <<"\\", "\"">>
        ELSE IF s[1] = "\\" THEN <<"\\", "\\">>
        ELSE IF s[1] = LF THEN <<"\\", "n">>
        ELSE IF s[1] = CR THEN <<"\\", "r">>
        ELSE <<s[1]>>) \o QuoteChars(Tail(s))

\* The JSON text of a string.
Quote(s) == <<"\"">> \o QuoteChars(s) \o <<"\"">>

RECURSIVE JSONStringify(_)
RECURSIVE StringifyMembers(_)

StringifyMembers(o) ==
  IF Len(o) = 0 THEN <<>>
  ELSE Quote(o[1].k) \o <<":">> \o JSONStringify(o[1].v)
         \o (IF Len(o) > 1 THEN <<",">> ELSE <<>>)
         \o StringifyMembers(Tail(o))

\* JSON.stringify(value), no indentation.
JSONStringify(val) ==
  IF val.t = "num" THEN IntText(val.n)
  ELSE IF val.t = "str" THEN Quote(val.s)
  ELSE IF val.t = "bool"
       THEN (IF val.n = 1 THEN <<"t", "r", "u", "e">>
                          ELSE <<"f", "a", "l", "s", "e">>)
  ELSE IF val.t = "null" THEN <<"n", "u", "l", "l">>
  ELSE <<"{">> \o StringifyMembers(val.o) \o <<"}">>

(***************************************************************************)
(* JSON.parse                                                              *)
(*                                                                         *)
(* A parse step returns [ok, v, i]: whether it read a value, the value,    *)
(* and the position after it.                                              *)
(***************************************************************************)

ParseFail == [ok |-> FALSE, v |-> JNull, i |-> 0]
ParseOk(val, i) == [ok |-> TRUE, v |-> val, i |-> i]

RECURSIVE SkipWs(_, _)
\* The position of the first character at or after i that is not JSON
\* white space.
SkipWs(s, i) ==
  IF i <= Len(s) /\ IsSpace(s[i]) THEN SkipWs(s, i + 1) ELSE i

RECURSIVE ScanString(_, _, _)
\* The rest of a JSON string whose opening quote is before position i.
ScanString(s, i, acc) ==
  IF i > Len(s) THEN ParseFail
  ELSE IF s[i] = "\"" THEN ParseOk(JStr(acc), i + 1)
  ELSE IF s[i] \in {LF, CR} THEN ParseFail
  ELSE IF s[i] = "\\" THEN
    IF i + 1 > Len(s) THEN ParseFail
    ELSE IF s[i + 1] \in {"\"", "\\", "/"}
         THEN ScanString(s, i + 2, Append(acc, s[i + 1]))
    ELSE IF s[i + 1] = "n" THEN ScanString(s, i + 2, Append(acc, LF))
    ELSE IF s[i + 1] = "r" THEN ScanString(s, i + 2, Append(acc, CR))
    ELSE ParseFail
  ELSE ScanString(s, i + 1, Append(acc, s[i]))

RECURSIVE DigitRunEnd(_, _)
\* The position after the run of digits that starts at i.
DigitRunEnd(s, i) ==
  IF i <= Len(s) /\ IsDigit(s[i]) THEN DigitRunEnd(s, i + 1) ELSE i

\* A JSON integer at position i: an optional "-", then "0" or a run of
\* digits that does not start with "0".
ParseNumber(s, i) ==
  LET neg   == s[i] = "-"
      first == IF neg THEN i + 1 ELSE i
      last  == DigitRunEnd(s, first)
      run   == SubSeq(s, first, last - 1)
  IN  IF Len(run) = 0 THEN ParseFail
      ELSE IF run[1] = "0"
           THEN ParseOk(JNum(0), first + 1)
      ELSE ParseOk(JNum(IF neg THEN -DigitsValue(run) ELSE DigitsValue(run)),
                   last)

RECURSIVE ParseValue(_, _)
RECURSIVE ParseMembers(_, _, _)

\* The members of an object from position i, where a key must start; acc
\* holds the properties created so far.
ParseMembers(s, i, acc) ==
  IF i > Len(s) \/ s[i] # "\"" THEN ParseFail
  ELSE
    LET key == ScanString(s, i + 1, <<>>)
    IN  IF ~key.ok THEN ParseFail
        ELSE
          LET colon == SkipWs(s, key.i)
          IN  IF colon > Len(s) \/ s[colon] # ":" THEN ParseFail
              ELSE
                LET val == ParseValue(s, SkipWs(s, colon + 1))
                IN  IF ~val.ok THEN ParseFail
                    ELSE
                      LET props == SetProp(acc, key.v.s, val.v)
                          next  == SkipWs(s, val.i)
                      IN  IF next > Len(s) THEN ParseFail
                          ELSE IF s[next] = "}"
                               THEN ParseOk(JObj(props), next + 1)
                          ELSE IF s[next] = ","
                               THEN ParseMembers(s, SkipWs(s, next + 1), props)
                          ELSE ParseFail

\* The JSON value that starts at position i.
ParseValue(s, i) ==
  IF i > Len(s) THEN ParseFail
  ELSE IF s[i] = "{" THEN
    LET j == SkipWs(s, i + 1)
    IN  IF j <= Len(s) /\ s[j] = "}" THEN ParseOk(JObj(<<>>), j + 1)
        ELSE ParseMembers(s, j, <<>>)
  ELSE IF s[i] = "\"" THEN ScanString(s, i + 1, <<>>)
  ELSE IF s[i] = "-" \/ IsDigit(s[i]) THEN ParseNumber(s, i)
  ELSE IF OccursAt(s, <<"n", "u", "l", "l">>, i) THEN ParseOk(JNull, i + 4)
  ELSE IF OccursAt(s, <<"t", "r", "u", "e">>, i)
       THEN ParseOk(JBool(TRUE), i + 4)
  ELSE IF OccursAt(s, <<"f", "a", "l", "s", "e">>, i)
       THEN ParseOk(JBool(FALSE), i + 5)
  ELSE ParseFail

\* JSON.parse(text): [ok, v], ok FALSE standing for the SyntaxError thrown.
\* The whole text must be one value, white space around it allowed.
JSONParse(s) ==
  LET r == ParseValue(s, SkipWs(s, 1))
  IN  IF r.ok /\ SkipWs(s, r.i) = Len(s) + 1
      THEN [ok |-> TRUE, v |-> r.v]
      ELSE [ok |-> FALSE, v |-> JNull]

(***************************************************************************)
(* The functions the three scripts share                                   *)
(***************************************************************************)

\* The value undefined where a text is expected (a missing array element).
Undefined == <<"UNDEFINED">>

\* The text that string concatenation makes of undefined.
UndefinedText == <<"u", "n", "d", "e", "f", "i", "n", "e", "d">>

\* The character class [a-zA-Z0-9_-] of the token pattern.
IsTokenChar(c) ==
  c \in AsciiChars /\ (IsUpper(c) \/ IsLower(c) \/ IsDigit(c) \/ c \in {"_", "-"})

RECURSIVE TokenRunEnd(_, _)
\* The position after the longest run of class characters that starts at i.
TokenRunEnd(s, i) ==
  IF i <= Len(s) /\ IsTokenChar(s[i]) THEN TokenRunEnd(s, i + 1) ELSE i

EyJ == <<"e", "y", "J">>

\* /(eyJ[a-zA-Z0-9_-]+)\.(eyJ[a-zA-Z0-9_-]+)\.([a-zA-Z0-9_-]*)/ tried at
\* position i: the position after the match, 0 when there is none.  The class
\* excludes ".", so each greedy run either meets the "." the pattern needs
\* or no shorter run does.
MatchAt(s, i) ==
  IF ~OccursAt(s, EyJ, i) THEN 0
  ELSE
    LET e1 == TokenRunEnd(s, i + 3)
    IN  IF e1 = i + 3 \/ ~OccursAt(s, <<".">> \o EyJ, e1) THEN 0
        ELSE
          LET e2 == TokenRunEnd(s, e1 + 4)
          IN  IF e2 = e1 + 4 \/ ~OccursAt(s, <<".">>, e2) THEN 0
              ELSE TokenRunEnd(s, e2 + 1)

RECURSIVE MatchAll(_, _)
\* String.prototype.match with the g flag, from position i: every match,
\* left to right, the search going on after each match.
MatchAll(s, i) ==
  IF i > Len(s) THEN <<>>
  ELSE LET e == MatchAt(s, i)
       IN  IF e = 0 THEN MatchAll(s, i + 1)
           ELSE <<SubSeq(s, i, e - 1)>> \o MatchAll(s, e)

\* Array.prototype.findIndex(line => line.trim() === ''), 0-based, -1 when
\* no line is blank.
FindBlankIndex(lines) ==
  LET blank == { i \in 1..Len(lines) : Trim(lines[i]) = <<>> }
  IN  IF blank = {} THEN -1
      ELSE (CHOOSE i \in blank : \A j \in blank : i <= j) - 1

\* Array.prototype.slice(start, end), 0-based, start >= 0: a negative end
\* counts from the end of the array.
Slice(arr, start, end) ==
  LET to == IF end < 0 THEN (IF Len(arr) + end < 0 THEN 0 ELSE Len(arr) + end)
            ELSE IF end > Len(arr) THEN Len(arr) ELSE end
  IN  SubSeq(arr, start + 1, to)

\* The entries extractJWTs pushes for one header line.
LineJWTs(line) ==
  LET parts       == SplitOn(line, ":")
      headerName  == parts[1]
      headerValue == Trim(JoinWith(Tail(parts), ":"))
      matches     == MatchAll(headerValue, 1)
  IN  [ i \in 1..Len(matches) |->
          [ headerName  |-> Trim(headerName),
            headerValue |-> headerValue,
            token       |-> matches[i] ] ]

RECURSIVE LinesJWTs(_)
\* The loop of extractJWTs over the header lines.
LinesJWTs(headerLines) ==
  IF Len(headerLines) = 0 THEN <<>>
  ELSE LineJWTs(headerLines[1]) \o LinesJWTs(Tail(headerLines))

\* The lines extractJWTs takes for the headers.
HeaderLines(rawRequest) ==
  LET lines           == SplitOn(rawRequest, LF)
      headersEndIndex == FindBlankIndex(lines)
  IN  Slice(lines, 1, headersEndIndex)

extractJWTs(rawRequest) == LinesJWTs(HeaderLines(rawRequest))

\* JSON.parse(Buffer.from(segment, 'base64').toString()); Buffer.from throws a
\* TypeError for undefined.
DecodeSegment(segment) ==
  IF segment = Undefined THEN [ok |-> FALSE, v |-> JNull]
  ELSE JSONParse(Utf8Text(Base64Decode(segment)))

\* Element i (1-based) of an array, undefined past its end.
ElementAt(arr, i) == IF i <= Len(arr) THEN arr[i] ELSE Undefined

\* parseJWT: ok FALSE stands for the exception thrown.
parseJWT(jwt) ==
  LET parts   == SplitOn(jwt, ".")
      header  == DecodeSegment(ElementAt(parts, 1))
      payload == DecodeSegment(ElementAt(parts, 2))
  IN  IF header.ok /\ payload.ok
      THEN [ ok        |-> TRUE,
             header    |-> header.v,
             payload   |-> payload.v,
             signature |-> ElementAt(parts, 3) ]
      ELSE [ ok        |-> FALSE,
             header    |-> JNull,
             payload   |-> JNull,
             signature |-> Undefined ]

\* generateJWT with the two encoded segments in the wrong order.
generateJWTSwapped(header, payload, signature, stripeq) ==
  LET sig            == IF signature = Undefined THEN <<>> ELSE signature
      encodedHeader  == Base64Encode(Utf8Bytes(JSONStringify(header)))
      encodedPayload == Base64Encode(Utf8Bytes(JSONStringify(payload)))
      jwt            == encodedPayload \o <<".">> \o encodedHeader
                          \o <<".">> \o sig
  IN  IF stripeq THEN RemoveAll(jwt, "=") ELSE jwt

\* generateJWT(header, payload, signature = '', stripeq = true).
generateJWT(header, payload, signature, stripeq) ==
  LET sig            == IF signature = Undefined THEN <<>> ELSE signature
      encodedHeader  == Base64Encode(Utf8Bytes(JSONStringify(header)))
      encodedPayload == Base64Encode(Utf8Bytes(JSONStringify(payload)))
      jwt            == encodedHeader \o <<".">> \o encodedPayload
                          \o <<".">> \o sig
  IN  IF stripeq THEN RemoveAll(jwt, "=") ELSE jwt

\* An array element inside a string concatenation.
PartText(parts, i) == IF i <= Len(parts) THEN parts[i] ELSE UndefinedText

\* createVariants with the segments indexed from 1, as if parts[1] were the
\* first.
createVariantsFromOne(jwt) ==
  LET parts == SplitOn(jwt, ".")
  IN  << jwt,
         PartText(parts, 2) \o <<".">> \o PartText(parts, 3) \o <<".">>,
         PartText(parts, 2) \o <<".">> \o PartText(parts, 3),
         PartText(parts, 2) \o <<".">> \o PartText(parts, 3) \o <<".">>
           \o PartText(parts, 4) \o <<"a">> >>

createVariants(jwt) ==
  LET parts == SplitOn(jwt, ".")
  IN  << jwt,
         PartText(parts, 1) \o <<".">> \o PartText(parts, 2) \o <<".">>,
         PartText(parts, 1) \o <<".">> \o PartText(parts, 2),
         PartText(parts, 1) \o <<".">> \o PartText(parts, 2) \o <<".">>
           \o PartText(parts, 3) \o <<"a">> >>

(***************************************************************************)
(* The three strategies                                                    *)
(*                                                                         *)
(* A mutation is the [header, payload, signature] one pass of a strategy   *)
(* loop hands to generateJWT.                                              *)
(***************************************************************************)

KeyAlg == <<"a", "l", "g">>
KeyJku == <<"j", "k", "u">>
KeyX5u == <<"x", "5", "u">>
KeyKid == <<"k", "i", "d">>

\* const noneAlgs = ["none", "nOnE", "NONE", null, 0, ""]
noneAlgs ==
  << JStr(<<"n", "o", "n", "e">>), JStr(<<"n", "O", "n", "E">>),
     JStr(<<"N", "O", "N", "E">>), JNull, JNum(0), JStr(<<>>) >>

\* const ssrfProps = ["jku", "x5u", "kid"]
ssrfProps == <<KeyJku, KeyX5u, KeyKid>>

\* The literal "?type=jwtssrftest&key=" of the SSRF template.
SsrfQuery ==
  << "?", "t", "y", "p", "e", "=", "j", "w", "t", "s", "s", "r", "f", "t",
     "e", "s", "t", "&", "k", "e", "y", "=" >>

\* { alg, ...parsedJWT.header }: the spread last, so that an alg of the
\* header wins.
NoneModifiedHeaderSpreadLast(parsedJWT, alg) ==
  LET props == SpreadProps(parsedJWT.header)
  IN  JObj(IF HasKey(props, KeyAlg) THEN props ELSE SetProp(props, KeyAlg, alg))

\* { ...parsedJWT.header, alg }
NoneModifiedHeader(parsedJWT, alg) ==
  JObj(SetProp(SpreadProps(parsedJWT.header), KeyAlg, alg))

NoneMutations(parsedJWT) ==
  [ i \in 1..Len(noneAlgs) |->
      [ header    |-> NoneModifiedHeader(parsedJWT, noneAlgs[i]),
        payload   |-> parsedJWT.payload,
        signature |-> parsedJWT.signature ] ]

\* The SSRF header with the key parameter left out of the URL.
SsrfModifiedHeaderNoKey(parsedJWT, prop, url) ==
  JObj(SetProp(SpreadProps(parsedJWT.header), prop, JStr(url \o SsrfQuery)))

\* { ...parsedJWT.header, [prop]: WEBHOOK_URL + "?type=jwtssrftest&key=" + prop }
SsrfModifiedHeader(parsedJWT, prop, url) ==
  JObj(SetProp(SpreadProps(parsedJWT.header), prop,
               JStr(url \o SsrfQuery \o prop)))

SsrfMutations(parsedJWT, url) ==
  [ i \in 1..Len(ssrfProps) |->
      [ header    |-> SsrfModifiedHeader(parsedJWT, ssrfProps[i], url),
        payload   |-> parsedJWT.payload,
        signature |-> parsedJWT.signature ] ]

\* { ...parsedJWT.payload, [prop]: parsedJWT.payload[prop] + 1 }
PropModifiedPayload(parsedJWT, prop) ==
  LET props == SpreadProps(parsedJWT.payload)
  IN  JObj(SetProp(props, prop, PlusOne(GetProp(props, prop))))

\* for (const prop in parsedJWT.payload): one pass per enumerated key.
PropMutations(parsedJWT) ==
  LET props == Keys(SpreadProps(parsedJWT.payload))
  IN  [ i \in 1..Len(props) |->
          [ header    |-> parsedJWT.header,
            payload   |-> PropModifiedPayload(parsedJWT, props[i]),
            signature |-> parsedJWT.signature ] ]

\* The token of a mutation: generateJWT with stripeq left at its default.
MutationJWT(m) == generateJWT(m.header, m.payload, m.signature, TRUE)

\* PassRequests with the two signature-less variants in the other order.
PassRequestsSwapped(newJWT, originalJWT, input, variances) ==
  IF variances
  THEN LET vars == createVariants(newJWT)
       IN  << ReplaceFirst(input, originalJWT, vars[1]),
              ReplaceFirst(input, originalJWT, vars[3]),
              ReplaceFirst(input, originalJWT, vars[2]),
              ReplaceFirst(input, originalJWT, vars[4]) >>
  ELSE << ReplaceFirst(input, originalJWT, newJWT) >>

\* What one pass of a strategy loop pushes to results.
PassRequests(newJWT, originalJWT, input, variances) ==
  IF variances
  THEN LET vars == createVariants(newJWT)
       IN  [ j \in 1..Len(vars) |-> ReplaceFirst(input, originalJWT, vars[j]) ]
  ELSE << ReplaceFirst(input, originalJWT, newJWT) >>

RECURSIVE LoopRequests(_, _, _, _)
\* results after the loop over the tokens newJWTs, in push order.
LoopRequests(newJWTs, originalJWT, input, variances) ==
  IF Len(newJWTs) = 0 THEN <<>>
  ELSE PassRequests(newJWTs[1], originalJWT, input, variances)
         \o LoopRequests(Tail(newJWTs), originalJWT, input, variances)

\* The tokens a strategy loop generates, in loop order.
MutationJWTs(muts) == [ i \in 1..Len(muts) |-> MutationJWT(muts[i]) ]

testNoneAlgorithm(parsedJWT, originalJWT, input, variances) ==
  LoopRequests(MutationJWTs(NoneMutations(parsedJWT)),
               originalJWT, input, variances)

testSSRF(parsedJWT, originalJWT, input, variances, url) ==
  LoopRequests(MutationJWTs(SsrfMutations(parsedJWT, url)),
               originalJWT, input, variances)

testPropertyModification(parsedJWT, originalJWT, input, variances) ==
  LoopRequests(MutationJWTs(PropMutations(parsedJWT)),
               originalJWT, input, variances)

(***************************************************************************)
(* Inputs                                                                  *)
(***************************************************************************)

\* The most header lines a request of the model holds.
MaxHeaderLines == 2

\* The text of a JSON object whose members are written in the order given.
ObjectText(members) == <<"{">> \o StringifyMembers(members) \o <<"}">>

\* base64url without padding, as token issuers write it.
B64Url(text) ==
  LET std == RemoveAll(Base64Encode(Utf8Bytes(text)), "=")
  IN  [ i \in 1..Len(std) |->
          IF std[i] = "+" THEN "-" ELSE IF std[i] = "/" THEN "_" ELSE std[i] ]

\* The compact token of a header text, a payload text and a signature.
MakeToken(headerText, payloadText, sig) ==
  B64Url(headerText) \o <<".">> \o B64Url(payloadText) \o <<".">> \o sig

\* {"typ":"JWT","alg":"HS","kid":"k"}
HeaderTextA ==
  ObjectText(<< [k |-> <<"t", "y", "p">>, v |-> JStr(<<"J", "W", "T">>)],
                [k |-> KeyAlg, v |-> JStr(<<"H", "S">>)],
                [k |-> KeyKid, v |-> JStr(<<"k">>)] >>)

\* {"typ":"JWT"}
HeaderTextB ==
  ObjectText(<< [k |-> <<"t", "y", "p">>, v |-> JStr(<<"J", "W", "T">>)] >>)

\* {"n":"x","2":5,"1":7}: a first key that starts with a digit would make
\* the segment start with "eyI", which the token pattern does not match.
PayloadTextA ==
  ObjectText(<< [k |-> <<"n">>, v |-> JStr(<<"x">>)],
                [k |-> <<"2">>, v |-> JNum(5)],
                [k |-> <<"1">>, v |-> JNum(7)] >>)

\* {"sub":"12","exp":9}
PayloadTextB ==
  ObjectText(<< [k |-> <<"s", "u", "b">>, v |-> JStr(<<"1", "2">>)],
                [k |-> <<"e", "x", "p">>, v |-> JNum(9)] >>)

TokenA == MakeToken(HeaderTextA, PayloadTextA, <<"s", "g">>)
\* A token with an empty signature.
TokenB == MakeToken(HeaderTextB, PayloadTextB, <<>>)
\* A token the pattern matches whose segments are not JSON.
TokenBad == <<"e", "y", "J", "h", ".", "e", "y", "J", "h", ".", "s">>

\* The header lines a request is made of.
HeaderLineChoices ==
  { <<"A", "u", "t", "h", ":", " ", "B", " ">> \o TokenA,
    <<"C", ":", "x", "=">> \o TokenB \o <<";", " ", "y", "=">> \o TokenA,
    <<"H", "o", "s", "t", ":", " ", "h">>,
    <<"X", ":", " ">> \o TokenBad }

RequestLines ==
  { <<"G", "E", "T", " ", "/">>,
    <<"G", "E", "T", " ", "/", "?", "t", "=">> \o TokenA }

\* What follows the last header line: nothing, a line break (so that the last
\* line is blank), or a blank line and a body.
RequestEndings ==
  { <<>>, <<LF>>, <<CR, LF, CR, LF, "b", "=">> \o TokenA }

HeaderLineSeqs ==
  UNION { [1..n -> HeaderLineChoices] : n \in 0..MaxHeaderLines }

\* A request text: the request line, the header lines, the ending.
RequestText(line, headers, ending) ==
  JoinWith(<<line>> \o headers, LF) \o ending

Requests ==
  { RequestText(l, h, e) :
      l \in RequestLines, h \in HeaderLineSeqs, e \in RequestEndings }

Scripts == {"none", "ssrf", "prop"}

\* WEBHOOK_URL = "http://webhook.site/your-uuid", and another the user may
\* set it to.
WebhookUrls ==
  { << "h", "t", "t", "p", ":", "/", "/", "w", "e", "b", "h", "o", "o", "k",
       ".", "s", "i", "t", "e", "/", "y", "o", "u", "r", "-", "u", "u", "i",
       "d" >>,
    << "h", "t", "t", "p", "s", ":", "/", "/", "c", ".", "t", "/", "u" >> }

(***************************************************************************)
(* State                                                                   *)
(***************************************************************************)

VARIABLES
  script,       \* which of the three scripts runs
  WEBHOOK_URL,  \* the global of the SSRF script
  input,        \* the request text the script is given
  variances,    \* the variances parameter of the test function
  pc,           \* where the run is
  jwts,         \* run: what extractJWTs returned
  originalJWT,  \* run: jwts[0].token
  parsedJWT,    \* run: what parseJWT returned
  mutations,    \* the arguments of the generateJWT calls of the loop
  newJWTs,      \* the tokens the loop generated
  results,      \* what run returned
  fnArgs,       \* the arguments of a direct generateJWT call
  jwt,          \* the token of a direct call
  decoded,      \* what a direct parseJWT call returned
  variants      \* what a direct createVariants call returned

vars ==
  << script, WEBHOOK_URL, input, variances, pc, jwts, originalJWT, parsedJWT,
     mutations, newJWTs, results, fnArgs, jwt, decoded, variants >>

runVars ==
  << script, WEBHOOK_URL, input, variances, jwts, originalJWT, parsedJWT,
     mutations, newJWTs, results >>

NotParsed ==
  [ok |-> FALSE, header |-> JNull, payload |-> JNull, signature |-> Undefined]

NoArgs ==
  [header |-> JNull, payload |-> JNull, signature |-> <<>>, stripeq |-> TRUE]

Pending       == [kind |-> "pending",   items |-> <<>>]
ReturnedUndef == [kind |-> "undefined", items |-> <<>>]
Returned(arr) == [kind |-> "array",     items |-> arr]

(***************************************************************************)
(* run(input), step by step                                                *)
(***************************************************************************)

\* One of the three scripts is given a request.  variances is the fourth
\* parameter of its test function: true by default, which is what run leaves
\* it at, false when the function is called with the variants turned off.
Init ==
  /\ script \in Scripts
  /\ WEBHOOK_URL \in (IF script = "ssrf" THEN WebhookUrls ELSE {<<>>})
  /\ input \in Requests
  /\ variances \in BOOLEAN
  /\ pc = "start"
  /\ jwts = <<>>
  /\ originalJWT = <<>>
  /\ parsedJWT = NotParsed
  /\ mutations = <<>>
  /\ newJWTs = <<>>
  /\ results = Pending
  /\ fnArgs = NoArgs
  /\ jwt = <<>>
  /\ decoded = NotParsed
  /\ variants = <<>>

\* const jwts = extractJWTs(input); if (jwts.length === 0) { ...; return; }
Extract ==
  /\ pc = "start"
  /\ jwts' = extractJWTs(input)
  /\ IF Len(jwts') = 0
     THEN pc' = "done" /\ results' = ReturnedUndef
     ELSE pc' = "extracted" /\ results' = results
  /\ UNCHANGED << script, WEBHOOK_URL, input, variances, originalJWT,
                  parsedJWT, mutations, newJWTs, fnArgs, jwt, decoded,
                  variants >>

\* const originalJWT = jwts[0].token; const parsedJWT = parseJWT(originalJWT);
\* an exception of parseJWT leaves run.
Parse ==
  /\ pc = "extracted"
  /\ originalJWT' = jwts[1].token
  /\ parsedJWT' = parseJWT(originalJWT')
  /\ pc' = IF parsedJWT'.ok THEN "parsed" ELSE "thrown"
  /\ UNCHANGED << script, WEBHOOK_URL, input, variances, jwts, mutations,
                  newJWTs, results, fnArgs, jwt, decoded, variants >>

\* return testNoneAlgorithm(parsedJWT, originalJWT, input)
TestNoneAlgorithm ==
  /\ pc = "parsed"
  /\ script = "none"
  /\ mutations' = NoneMutations(parsedJWT)
  /\ newJWTs' = MutationJWTs(mutations')
  /\ results' = Returned(testNoneAlgorithm(parsedJWT, originalJWT, input,
                                           variances))
  /\ pc' = "done"
  /\ UNCHANGED << script, WEBHOOK_URL, input, variances, jwts, originalJWT,
                  parsedJWT, fnArgs, jwt, decoded, variants >>

\* return testSSRF(parsedJWT, originalJWT, input)
TestSSRF ==
  /\ pc = "parsed"
  /\ script = "ssrf"
  /\ mutations' = SsrfMutations(parsedJWT, WEBHOOK_URL)
  /\ newJWTs' = MutationJWTs(mutations')
  /\ results' = Returned(testSSRF(parsedJWT, originalJWT, input, variances,
                                  WEBHOOK_URL))
  /\ pc' = "done"
  /\ UNCHANGED << script, WEBHOOK_URL, input, variances, jwts, originalJWT,
                  parsedJWT, fnArgs, jwt, decoded, variants >>

\* return testPropertyModification(parsedJWT, originalJWT, input)
TestPropertyModification ==
  /\ pc = "parsed"
  /\ script = "prop"
  /\ mutations' = PropMutations(parsedJWT)
  /\ newJWTs' = MutationJWTs(mutations')
  /\ results' = Returned(testPropertyModification(parsedJWT, originalJWT,
                                                  input, variances))
  /\ pc' = "done"
  /\ UNCHANGED << script, WEBHOOK_URL, input, variances, jwts, originalJWT,
                  parsedJWT, fnArgs, jwt, decoded, variants >>

Next ==
  \/ Extract
  \/ Parse
  \/ TestNoneAlgorithm
  \/ TestSSRF
  \/ TestPropertyModification

Spec == Init /\ [][Next]_vars

(***************************************************************************)
(* Direct calls of generateJWT, parseJWT and createVariants                *)
(***************************************************************************)

\* The longest signature text handed to generateJWT.
MaxSigLen == 2

\* The characters of those signatures: two token characters and the padding
\* character.
SigChars == {"s", "-", "="}

CodecSignatures == UNION { [1..n -> SigChars] : n \in 0..MaxSigLen }

\* The object with the given properties, set in the order given.
RECURSIVE ObjectOf(_)
ObjectOf(members) ==
  IF Len(members) = 0 THEN <<>>
  ELSE LET m == members[Len(members)]
       IN  SetProp(ObjectOf(Take(members, Len(members) - 1)), m.k, m.v)

\* {}, {"alg":"HS"}, {"1":-3,"a":null}: JSON texts of 2, 12 and 17 bytes,
\* so that base64 pads with one "=", none and two.
CodecHeaders ==
  { JObj(<<>>),
    JObj(ObjectOf(<< [k |-> KeyAlg, v |-> JStr(<<"H", "S">>)] >>)),
    JObj(ObjectOf(<< [k |-> <<"a">>, v |-> JNull],
                     [k |-> <<"1">>, v |-> JNum(-3)] >>)) }

\* {"a":1}, {"s":"x\"y"}, {"b":true,"n":10}
CodecPayloads ==
  { JObj(ObjectOf(<< [k |-> <<"a">>, v |-> JNum(1)] >>)),
    JObj(ObjectOf(<< [k |-> <<"s">>, v |-> JStr(<<"x", "\"", "y">>)] >>)),
    JObj(ObjectOf(<< [k |-> <<"b">>, v |-> JBool(TRUE)],
                     [k |-> <<"n">>, v |-> JNum(10)] >>)) }

\* Token segments: {"a":1}, the JSON texts 123 and null, the broken text {"a,
\* and {} with its padding.
RawSegments ==
  { B64Url(ObjectText(<< [k |-> <<"a">>, v |-> JNum(1)] >>)),
    <<"M", "T", "I", "z">>,
    <<"b", "n", "V", "s", "b", "A">>,
    <<"e", "y", "J", "h">>,
    <<"e", "3", "0", "=">> }

\* What follows the second segment: nothing, a signature, a signature and a
\* fourth segment.
RawTails == { <<>>, << <<"s">> >>, << <<>> >>, << <<"s">>, <<"x">> >> }

\* Token texts of 1, 2, 3 and 4 segments.
RawTokens ==
  RawSegments \cup
  { JoinWith(<<h, p>> \o t, ".") :
      h \in RawSegments, p \in RawSegments, t \in RawTails }

InitCodec ==
  /\ script = "none"
  /\ WEBHOOK_URL = <<>>
  /\ input = <<>>
  /\ variances = TRUE
  /\ jwts = <<>>
  /\ originalJWT = <<>>
  /\ parsedJWT = NotParsed
  /\ mutations = <<>>
  /\ newJWTs = <<>>
  /\ results = Pending
  /\ decoded = NotParsed
  /\ variants = <<>>
  /\ \/ /\ pc = "encode"
        /\ fnArgs \in [ header    : CodecHeaders,
                        payload   : CodecPayloads,
                        signature : CodecSignatures,
                        stripeq   : BOOLEAN ]
        /\ jwt = <<>>
     \/ /\ pc = "decode"
        /\ fnArgs = NoArgs
        /\ jwt \in RawTokens

\* jwt = generateJWT(header, payload, signature, stripeq)
Encode ==
  /\ pc = "encode"
  /\ jwt' = generateJWT(fnArgs.header, fnArgs.payload, fnArgs.signature,
                        fnArgs.stripeq)
  /\ pc' = "decode"
  /\ UNCHANGED << runVars, fnArgs, decoded, variants >>

\* decoded = parseJWT(jwt)
Decode ==
  /\ pc = "decode"
  /\ decoded' = parseJWT(jwt)
  /\ pc' = "variants"
  /\ UNCHANGED << runVars, fnArgs, jwt, variants >>

\* variants = createVariants(jwt)
Variants ==
  /\ pc = "variants"
  /\ variants' = createVariants(jwt)
  /\ pc' = "returned"
  /\ UNCHANGED << runVars, fnArgs, jwt, decoded >>

NextCodec ==
  \/ Encode
  \/ Decode
  \/ Variants

SpecCodec == InitCodec /\ [][NextCodec]_vars

(***************************************************************************)
(* Properties                                                              *)
(***************************************************************************)

\* run returned the requests of a strategy.
RunReturnedRequests == pc = "done" /\ results.kind = "array"

RECURSIVE ReplaceAll(_, _, _)
\* String.prototype.replaceAll with a string pattern: every occurrence, left
\* to right, the replaced text not searched again.
ReplaceAll(s, pat, rep) ==
  LET i == IndexOf(s, pat)
  IN  IF i = 0 THEN s
      ELSE Take(s, i - 1) \o rep
             \o ReplaceAll(Drop(s, i + Len(pat) - 1), pat, rep)

\* The number of times pat occurs in s.
Occurrences(s, pat) ==
  Cardinality({ i \in 1..Len(s) : OccursAt(s, pat, i) })

\* The candidate token entry idx of results was made from.
CandidateOf(idx) ==
  IF variances
  THEN LET parts == SplitOn(newJWTs[((idx - 1) \div 4) + 1], ".")
           hp    == parts[1] \o <<".">> \o parts[2]
           j     == (idx - 1) % 4
       IN  IF j = 0 THEN hp \o <<".">> \o parts[3]
           ELSE IF j = 1 THEN hp \o <<".">>
           ELSE IF j = 2 THEN hp
           ELSE hp \o <<".">> \o parts[3] \o <<"a">>
  ELSE newJWTs[idx]

\* C1: every emitted request text is the input with every literal occurrence
\* of the original token (jwts[0].token) replaced by the candidate token, not
\* only the first occurrence.
C1_EveryOccurrenceReplaced ==
  RunReturnedRequests =>
    \A idx \in 1..Len(results.items) :
      results.items[idx] = ReplaceAll(input, originalJWT, CandidateOf(idx))

\* C2: when extractJWTs finds no token, run returns an empty sequence of
\* results: a sequence value of length 0.
C2_NoTokenReturnsEmptySequence ==
  (pc = "done" /\ Len(jwts) = 0) => results = Returned(<<>>)

\* The header lines as the request format has them: the lines after the
\* request line and before the first blank line, or up to the end of the text
\* when no line is blank.
FormatHeaderLines(text) ==
  LET lines == SplitOn(text, LF)
      blank == { i \in 1..Len(lines) : Trim(lines[i]) = <<>> }
      stop  == IF blank = {} THEN Len(lines) + 1
               ELSE CHOOSE i \in blank : \A j \in blank : i <= j
  IN  SubSeq(lines, 2, stop - 1)

\* The value of a header line: what follows its first colon.
FormatHeaderValue(line) ==
  LET c == IndexOf(line, <<":">>)
  IN  IF c = 0 THEN <<>> ELSE Drop(line, c)

RECURSIVE FormatTokens(_)
\* Every token match of the values of the given lines, by line and then left
\* to right.
FormatTokens(lines) ==
  IF Len(lines) = 0 THEN <<>>
  ELSE MatchAll(FormatHeaderValue(lines[1]), 1) \o FormatTokens(Tail(lines))

\* C3: with or without a blank line ending the header section, extractJWTs
\* returns exactly the token matches of the header values, by header line
\* and then left to right, and none of the request line or of the body.
C3_ExtractReturnsHeaderTokens ==
  pc # "start" =>
    [ i \in 1..Len(jwts) |-> jwts[i].token ]
      = FormatTokens(FormatHeaderLines(input))

\* Whether a token segment decodes to the text of a JSON object.
IsObjectSegment(segment) ==
  LET r == JSONParse(Utf8Text(Base64Decode(segment)))
  IN  r.ok /\ r.v.t = "obj"

\* Whether a token text is three segments of which the first two decode to
\* JSON object text.
WellFormedToken(token) ==
  LET parts == SplitOn(token, ".")
  IN  /\ Len(parts) = 3
      /\ IsObjectSegment(parts[1])
      /\ IsObjectSegment(parts[2])

\* C4: parseJWT fails, and returns no decoded token, for every token text
\* that is not exactly 3 segments or whose first or second segment does not
\* decode to JSON object text.
C4_MalformedTokenRejected ==
  (pc \in {"variants", "returned"} /\ ~WellFormedToken(jwt)) => ~decoded.ok

\* generateJWT was called directly and its token parsed.
RoundTripDone == pc \in {"variants", "returned"} /\ fnArgs # NoArgs

\* C5 as stated: parseJWT(generateJWT(header, payload, signature, stripeq))
\* has the header and the payload passed in, stripeq true or false, and the
\* signature passed in.
C5_RoundTripKeepsSignature ==
  RoundTripDone =>
    /\ decoded.ok
    /\ decoded.header = fnArgs.header
    /\ decoded.payload = fnArgs.payload
    /\ decoded.signature = fnArgs.signature

\* C5 as amended: parseJWT(generateJWT(header, payload, signature, stripeq))
\* has the header and the payload passed in, stripeq true or false; its
\* signature is the one passed in when stripeq is false and the one passed in
\* with every "=" removed when stripeq is true (signatures without ".").
C5_RoundTrip ==
  RoundTripDone =>
    /\ decoded.ok
    /\ decoded.header = fnArgs.header
    /\ decoded.payload = fnArgs.payload
    /\ decoded.signature =
         (IF fnArgs.stripeq THEN RemoveAll(fnArgs.signature, "=")
                            ELSE fnArgs.signature)

\* A round trip of a padded header with a signature that holds "=", the
\* padding stripped.
C5_Witness ==
  /\ RoundTripDone
  /\ fnArgs.stripeq
  /\ fnArgs.header = JObj(<<>>)
  /\ \E i \in 1..Len(fnArgs.signature) : fnArgs.signature[i] = "="
  /\ decoded.ok

\* C6: for a token t = h.p.s of three segments, s empty or not,
\* createVariants(t) is exactly t, h.p., h.p and h.p.s followed by "a", in
\* this order.
C6_FourVariants ==
  (pc = "returned" /\ Len(SplitOn(jwt, ".")) = 3) =>
    LET parts == SplitOn(jwt, ".")
        hp    == parts[1] \o <<".">> \o parts[2]
    IN  variants = << jwt,
                      hp \o <<".">>,
                      hp,
                      hp \o <<".">> \o parts[3] \o <<"a">> >>

\* createVariants returned for a token of three segments whose signature is
\* empty.
C6_Witness ==
  /\ pc = "returned"
  /\ Len(SplitOn(jwt, ".")) = 3
  /\ SplitOn(jwt, ".")[3] = <<>>
  /\ Len(variants) = 4

\* Whether the property list new is old with only key k set to val: k is
\* there with val, every other key of old is there with its value, and
\* new has no other key and no key twice.
OnlyKeySet(old, new, k, val) ==
  /\ HasKey(new, k)
  /\ GetProp(new, k) = val
  /\ \A i \in 1..Len(old) :
       old[i].k # k => (HasKey(new, old[i].k) /\ GetProp(new, old[i].k) = old[i].v)
  /\ \A i \in 1..Len(new) : new[i].k # k => HasKey(old, new[i].k)
  /\ \A i, j \in 1..Len(new) : new[i].k = new[j].k => i = j

\* Whether the i-th token of the loop is the encoding of the i-th mutation.
TokenCarriesMutation(i) ==
  LET d == parseJWT(newJWTs[i])
  IN  /\ d.ok
      /\ d.header = mutations[i].header
      /\ d.payload = mutations[i].payload
      /\ d.signature = mutations[i].signature

\* The candidates of the none-algorithm strategy, in order.
C7_Candidates ==
  << JStr(<<"n", "o", "n", "e">>), JStr(<<"n", "O", "n", "E">>),
     JStr(<<"N", "O", "N", "E">>), JNull, JNum(0), JStr(<<>>) >>

\* C7: the none-algorithm strategy makes exactly 6 mutations, in the order
\* "none", "nOnE", "NONE", null, 0, ""; the header of the i-th is the input
\* header with only alg set to the i-th candidate, its payload and signature
\* are those of the input, and the input decoded token is left as parsed.
C7_NoneMutations ==
  (RunReturnedRequests /\ script = "none") =>
    /\ Len(mutations) = 6
    /\ Len(newJWTs) = 6
    /\ parsedJWT = parseJWT(originalJWT)
    /\ \A i \in 1..6 :
         /\ mutations[i].header.t = "obj"
         /\ OnlyKeySet(parsedJWT.header.o, mutations[i].header.o, KeyAlg,
                       C7_Candidates[i])
         /\ mutations[i].payload = parsedJWT.payload
         /\ mutations[i].signature = parsedJWT.signature
         /\ TokenCarriesMutation(i)

\* The none-algorithm script returned for a token whose header has an alg.
C7_Witness ==
  /\ RunReturnedRequests
  /\ script = "none"
  /\ HasKey(parsedJWT.header.o, KeyAlg)
  /\ Len(mutations) = 6

\* The properties of the SSRF strategy, in order.
C8_Props == << <<"j", "k", "u">>, <<"x", "5", "u">>, <<"k", "i", "d">> >>

\* C8: the SSRF strategy makes exactly 3 mutations, in the order jku, x5u,
\* kid; the header of the mutation for prop is the input header with only
\* prop set to WEBHOOK_URL followed by "?type=jwtssrftest&key=" and prop, and
\* its payload and signature are those of the input.
C8_SsrfMutations ==
  (RunReturnedRequests /\ script = "ssrf") =>
    /\ Len(mutations) = 3
    /\ Len(newJWTs) = 3
    /\ \A i \in 1..3 :
         /\ mutations[i].header.t = "obj"
         /\ OnlyKeySet(parsedJWT.header.o, mutations[i].header.o, C8_Props[i],
                       JStr(WEBHOOK_URL
                              \o << "?", "t", "y", "p", "e", "=", "j", "w",
                                    "t", "s", "s", "r", "f", "t", "e", "s",
                                    "t", "&", "k", "e", "y", "=" >>
                              \o C8_Props[i]))
         /\ mutations[i].payload = parsedJWT.payload
         /\ mutations[i].signature = parsedJWT.signature
         /\ TokenCarriesMutation(i)

\* The SSRF script returned for a token whose header has a kid and none of
\* jku and x5u.
C8_Witness ==
  /\ RunReturnedRequests
  /\ script = "ssrf"
  /\ HasKey(parsedJWT.header.o, KeyKid)
  /\ ~HasKey(parsedJWT.header.o, KeyJku)
  /\ Len(mutations) = 3

\* The payload text of the original token, as the request holds it.
OriginalPayloadText ==
  Utf8Text(Base64Decode(SplitOn(originalJWT, ".")[2]))

\* Where the member of key k starts in the original payload text.
TextPos(k) == IndexOf(OriginalPayloadText, Quote(k) \o <<":">>)

\* Key a is before key b in the original payload text.
TextOrder(a, b) == TextPos(a) < TextPos(b)

\* Key a is before key b as the engine enumerates properties: the integer
\* keys in ascending order, then the other keys in the order of the text.
EngineOrder(a, b) ==
  \/ IsIndexKey(a) /\ IsIndexKey(b) /\ DigitsLess(a, b)
  \/ IsIndexKey(a) /\ ~IsIndexKey(b)
  \/ ~IsIndexKey(a) /\ ~IsIndexKey(b) /\ TextOrder(a, b)

PayloadKeySet == { parsedJWT.payload.o[i].k : i \in 1..Len(parsedJWT.payload.o) }

\* Whether mutation m is the input with only the claim k changed, a number
\* at k raised by 1.
OnlyClaimChanged(m, k) ==
  LET old == parsedJWT.payload.o
      new == m.payload.o
  IN  /\ m.header = parsedJWT.header
      /\ m.signature = parsedJWT.signature
      /\ m.payload.t = "obj"
      /\ HasKey(new, k)
      /\ \A i \in 1..Len(old) :
           old[i].k # k =>
             (HasKey(new, old[i].k) /\ GetProp(new, old[i].k) = old[i].v)
      /\ \A i \in 1..Len(new) : HasKey(old, new[i].k)
      /\ \A i, j \in 1..Len(new) : new[i].k = new[j].k => i = j
      /\ (GetProp(old, k).t = "num" =>
            GetProp(new, k) = JNum(GetProp(old, k).n + 1))

\* Key a is before key b in the order named: "text" or "engine".
KeyOrder(order, a, b) ==
  IF order = "text" THEN TextOrder(a, b) ELSE EngineOrder(a, b)

\* Whether the mutations are one per payload key, the keys taken in the
\* order named.
OnePerKeyInOrder(order) ==
  /\ Len(mutations) = Cardinality(PayloadKeySet)
  /\ Len(newJWTs) = Len(mutations)
  /\ \E ks \in [1..Len(mutations) -> PayloadKeySet] :
       /\ \A i, j \in 1..Len(mutations) :
            i < j => KeyOrder(order, ks[i], ks[j])
       /\ \A i \in 1..Len(mutations) :
            OnlyClaimChanged(mutations[i], ks[i]) /\ TokenCarriesMutation(i)

\* C9 as stated: the payload-claim strategy makes exactly one mutation per
\* key of the payload, in the order of the keys in the original payload text
\* (integer-like keys included); in the mutation for a key whose value is a
\* number the value is that number plus 1, and every other claim, the header
\* and the signature are those of the input.
C9_MutationsInTextOrder ==
  (RunReturnedRequests /\ script = "prop") => OnePerKeyInOrder("text")

\* C9 as amended: the same, in the order in which the engine enumerates the
\* keys of the parsed payload: the integer-like keys first, in ascending
\* numeric order, then the other keys in the order of the payload text.
C9_MutationsInEngineOrder ==
  (RunReturnedRequests /\ script = "prop") => OnePerKeyInOrder("engine")

\* The payload-claim script returned for a payload that writes the key "2"
\* before the key "1".
C9_Witness ==
  /\ RunReturnedRequests
  /\ script = "prop"
  /\ HasKey(parsedJWT.payload.o, <<"1">>)
  /\ HasKey(parsedJWT.payload.o, <<"2">>)
  /\ TextOrder(<<"2">>, <<"1">>)
  /\ Len(mutations) = 3

\* The number of mutations of the strategy of the script.
StrategyMutationCount ==
  IF script = "none" THEN 6
  ELSE IF script = "ssrf" THEN 3
  ELSE Cardinality(PayloadKeySet)

\* C10: the results are ordered by mutation and then by variant (unchanged,
\* trailing dot, no signature, signature followed by "a"): with variances,
\* 4 x M entries, entry 4*i + j the request carrying variant j of the i-th
\* mutated token; without, M entries, entry i carrying the i-th mutated
\* token.  The request carries the token where the input first has the
\* original token.
C10_ResultOrder ==
  RunReturnedRequests =>
    LET M     == Len(newJWTs)
        first == IndexOf(input, originalJWT)
        pre   == Take(input, first - 1)
        post  == Drop(input, first + Len(originalJWT) - 1)
    IN  /\ first > 0
        /\ M = StrategyMutationCount
        /\ Len(results.items) = (IF variances THEN 4 * M ELSE M)
        /\ \A idx \in 1..Len(results.items) :
             results.items[idx] = pre \o CandidateOf(idx) \o post

\* The none-algorithm script returned 24 requests, the variants on.
C10_Witness ==
  /\ RunReturnedRequests
  /\ script = "none"
  /\ variances
  /\ Len(results.items) = 24

====
